---- MODULE Spec2Model ----
(***************************************************************************)
(* Model of ThingsBoard/src/Attribute_Request.h: the attribute request     *)
(* API (class Attribute_Request) built with THINGSBOARD_ENABLE_DYNAMIC = 0 *)
(* (fixed capacity Array store) and THINGSBOARD_USE_ESP_TIMER = 0 (polled  *)
(* timeout timer driven by loop()).                                        *)
(***************************************************************************)
EXTENDS Integers, Sequences, FiniteSets, TLC

\* ---------------------------------------------------------------- bounds
\* Template parameter MaxSubscriptions: capacity of the callback Array.
MaxSubscriptions == 2
\* size_t arithmetic is modulo 2^w; the model scales the modulus down.
CounterModulus == 3
\* Timeout of a request, in time units of the polled timer.
TimeoutThreshold == 1
\* Largest wall-time difference between two calls of loop().
MaxDelta == 2
\* Most keys in the list whose key string is built step by step.
MaxKeys == 3

\* ------------------------------------------------------------- constants
ATTRIBUTE_REQUEST_TOPIC == "v1/devices/me/attributes/request/%u"
ATTRIBUTE_RESPONSE_SUBSCRIBE_TOPIC == "v1/devices/me/attributes/response/+"
ATTRIBUTE_RESPONSE_TOPIC == "v1/devices/me/attributes/response/"
CLIENT_REQUEST_KEYS == "clientKeys"
CLIENT_RESPONSE_KEY == "client"
SHARED_REQUEST_KEY == "sharedKeys"
SHARED_RESPONSE_KEY == "shared"

\* A char const * that is nullptr (response / request key pointers).
nullptr == "nullptr"
\* A requested attribute key is a C string, modelled as a sequence of
\* characters; the null pointer is a value no C string equals.
NullKey == <<"nullptr">>

\* ---------------------------------------------------------------- inputs
\* The callback objects a caller constructs and passes to a request, before
\* NewCallback fills in the fields: the keys to request and the user callback
\* (response handler). No key, one key, a null key among the keys.
CallbackArguments ==
    { [attributes |-> <<>>,                  handler |-> "h1"],
      [attributes |-> <<<<"a">>>>,           handler |-> "h1"],
      [attributes |-> <<<<"a">>, NullKey>>,  handler |-> "h2"] }

\* A JSON object is the set of its paths (field names down to a value).
Documents ==
    { {<<"a", "1">>},
      {<<"client", "a", "1">>},
      {<<"shared", "a", "2">>} }

\* The suffix of a response topic after ATTRIBUTE_RESPONSE_TOPIC, as digits.
TopicSuffixes == {<<d>> : d \in 0..(CounterModulus - 1)} \cup {<<1, 0>>}

\* What the host's callbacks answer during one request: the subscribe fails,
\* or the request id pointer is null, or the send fails, or all succeed (a
\* callback after the first failure is not called, so its answer is no input).
\* id_ok is whether get_request_id_callback returns a non-null pointer.
HostOutcomes ==
    { [subscribe_ok |-> FALSE, id_ok |-> TRUE,  send_ok |-> TRUE],
      [subscribe_ok |-> TRUE,  id_ok |-> FALSE, send_ok |-> TRUE],
      [subscribe_ok |-> TRUE,  id_ok |-> TRUE,  send_ok |-> FALSE],
      [subscribe_ok |-> TRUE,  id_ok |-> TRUE,  send_ok |-> TRUE] }

VARIABLES
    m_attribute_request_callbacks, \* the Array of pending callbacks
    request_id,                    \* the host's counter behind get_request_id_callback
    calls,                         \* the host callbacks called by the last operation, with their answers
    invoked,                       \* the user callbacks invoked by the last operation
    ret,                           \* what the last operation returned
    last,                          \* the last operation and its arguments
    subscribed,                    \* whether the response topic is subscribed
    \* the locals of Attributes_Request while it builds the key string
    keys,                          \* attributes: the keys of the callback
    pc,                            \* where the construction of the string is
    att,                           \* the index of the key the running loop is at
    size,                          \* size_t size
    request,                       \* char request[size], "0" is the terminator
    written                        \* the indices strncat wrote to, from 0

engine == <<m_attribute_request_callbacks, request_id, calls, invoked, ret, last, subscribed>>

locals == <<keys, pc, att, size, request, written>>

vars == <<engine, locals>>

\* ------------------------------------------------- Attribute_Request_Callback
\* The callback object a caller constructs and passes to a request.
NewCallback(attributes, handler) ==
    [ attributes    |-> attributes,
      handler       |-> handler,
      request_id    |-> 0,
      attribute_key |-> nullptr,
      running       |-> FALSE,
      elapsed       |-> 0,
      invocations   |-> 0 ]

Set_Request_ID(cb, id) == [cb EXCEPT !.request_id = id]

Set_Attribute_Key(cb, key) == [cb EXCEPT !.attribute_key = key]

Start_Timeout_Timer(cb) == [cb EXCEPT !.running = TRUE, !.elapsed = 0]

Stop_Timeout_Timer(cb) == [cb EXCEPT !.running = FALSE]

\* Whether the polled timer of cb expires when delta more time has passed.
TimerExpires(cb, delta) == cb.running /\ cb.elapsed + delta > TimeoutThreshold

\* Update_Timeout_Timer: accumulate the elapsed time; on expiry the timer
\* stops and the callback is informed of the timeout.
Update_Timeout_Timer(cb, delta) ==
    IF ~cb.running THEN cb
    ELSE IF TimerExpires(cb, delta)
         THEN [cb EXCEPT !.running = FALSE,
                         !.elapsed = TimeoutThreshold + 1,
                         !.invocations = @ + 1]
         ELSE [cb EXCEPT !.elapsed = @ + delta]

\* Call_Callback: the user callback runs once more.
Call_Callback(cb) == [cb EXCEPT !.invocations = @ + 1]

\* One entry of the log of user callback invocations: which callback ran,
\* with which object, for which response document, for the how manieth time.
Invocation(cb, kind, data, response) ==
    [ request_id |-> cb.request_id,
      handler    |-> cb.handler,
      key        |-> cb.attribute_key,
      kind       |-> kind,
      data       |-> data,
      response   |-> response,
      nth        |-> cb.invocations ]

\* ---------------------------------------------------------------- Helper
stringIsNullorEmpty(str) == str = NullKey \/ str = <<>>

strlen(str) == Len(str)

RECURSIVE parseDigits(_, _)
parseDigits(digits, acc) ==
    IF digits = <<>> THEN acc
    ELSE parseDigits(Tail(digits), acc * 10 + Head(digits))

\* Helper::parseRequestId: the number after the topic prefix.
parseRequestId(suffix) == parseDigits(suffix, 0)

\* Helper::remove: erase the element the iterator points at.
remove(container, it) ==
    SubSeq(container, 1, it - 1) \o SubSeq(container, it + 1, Len(container))

\* ------------------------------------------------------------- JSON object
containsKey(object, key) == \E p \in object : Len(p) >= 2 /\ p[1] = key

Member(object, key) == {Tail(p) : p \in {q \in object : Len(q) >= 2 /\ q[1] = key}}

\* ------------------------------------------------------- host callbacks
NoPayload == [key |-> "", value |-> <<>>]

SubscribeCall(ok) ==
    [call |-> "subscribe", topic |-> ATTRIBUTE_RESPONSE_SUBSCRIBE_TOPIC,
     id |-> 0, payload |-> NoPayload, ok |-> ok]

UnsubscribeCall(ok) ==
    [call |-> "unsubscribe", topic |-> ATTRIBUTE_RESPONSE_SUBSCRIBE_TOPIC,
     id |-> 0, payload |-> NoPayload, ok |-> ok]

GetRequestIdCall(ok) ==
    [call |-> "get_request_id", topic |-> "", id |-> 0, payload |-> NoPayload, ok |-> ok]

PublishCall(id, key, value, ok) ==
    [call |-> "publish", topic |-> ATTRIBUTE_REQUEST_TOPIC,
     id |-> id, payload |-> [key |-> key, value |-> value], ok |-> ok]

\* ------------------------------------------------------ Attribute_Request
\* The bool an operation returns, as the log records it.
Bool(b) == IF b THEN "true" ELSE "false"

\* An unsubscribe that leaves the pending callbacks in the store.
Attributes_Request_Unsubscribe_KeepsStore(cbs, unsubscribe_ok) ==
    [ cbs |-> cbs, calls |-> <<UnsubscribeCall(unsubscribe_ok)>>, ret |-> Bool(unsubscribe_ok) ]

\* Attributes_Request_Unsubscribe: clear the store, unsubscribe the topic.
Attributes_Request_Unsubscribe(cbs, unsubscribe_ok) ==
    [ cbs |-> <<>>, calls |-> <<UnsubscribeCall(unsubscribe_ok)>>, ret |-> Bool(unsubscribe_ok) ]

\* A capacity check that is off by one.
CapacityExceeded_OffByOne(cbs) == Len(cbs) > MaxSubscriptions

\* The capacity check of the fixed size Array.
CapacityExceeded(cbs) == Len(cbs) + 1 > MaxSubscriptions

\* A subscribe step that stores the callback before it knows the subscribe
\* succeeded.
Attributes_Request_Subscribe_StoresFirst(cbs, callback, subscribe_ok) ==
    IF CapacityExceeded(cbs)
    THEN [ok |-> FALSE, cbs |-> cbs, calls |-> <<>>, registered |-> 0]
    ELSE IF ~subscribe_ok
    THEN [ok |-> FALSE, cbs |-> Append(cbs, callback),
          calls |-> <<SubscribeCall(FALSE)>>, registered |-> 0]
    ELSE [ok |-> TRUE, cbs |-> Append(cbs, callback),
          calls |-> <<SubscribeCall(TRUE)>>, registered |-> Len(cbs) + 1]

\* A subscribe step that subscribes for the first pending callback only.
Attributes_Request_Subscribe_OnlyFirst(cbs, callback, subscribe_ok) ==
    IF CapacityExceeded(cbs)
    THEN [ok |-> FALSE, cbs |-> cbs, calls |-> <<>>, registered |-> 0]
    ELSE IF cbs # <<>>
    THEN [ok |-> TRUE, cbs |-> Append(cbs, callback), calls |-> <<>>,
          registered |-> Len(cbs) + 1]
    ELSE IF ~subscribe_ok
    THEN [ok |-> FALSE, cbs |-> cbs, calls |-> <<SubscribeCall(FALSE)>>, registered |-> 0]
    ELSE [ok |-> TRUE, cbs |-> Append(cbs, callback),
          calls |-> <<SubscribeCall(TRUE)>>, registered |-> Len(cbs) + 1]

\* Attributes_Request_Subscribe: capacity check, subscribe, push_back.
\* registered is the index of the stored copy (0 stands for nullptr).
Attributes_Request_Subscribe(cbs, callback, subscribe_ok) ==
    IF CapacityExceeded(cbs)
    THEN [ok |-> FALSE, cbs |-> cbs, calls |-> <<>>, registered |-> 0]
    ELSE IF ~subscribe_ok
    THEN [ok |-> FALSE, cbs |-> cbs, calls |-> <<SubscribeCall(FALSE)>>, registered |-> 0]
    ELSE [ok |-> TRUE, cbs |-> Append(cbs, callback),
          calls |-> <<SubscribeCall(TRUE)>>, registered |-> Len(cbs) + 1]

\* A key check that also refuses a list with a null key in it.
NoKeysRequested_OrNullKey(attributes) ==
    attributes = <<>> \/ \E i \in 1..Len(attributes) : attributes[i] = NullKey

\* A key check that lets the empty list pass.
NoKeysRequested_Never(attributes) == FALSE

\* The check that any keys were requested.
NoKeysRequested(attributes) == attributes = <<>>

\* The keys joined by the two loops over the attributes: every key that is
\* neither null nor empty, each followed by a comma.
RECURSIVE JoinKeys(_)
JoinKeys(attributes) ==
    IF attributes = <<>> THEN <<>>
    ELSE IF stringIsNullorEmpty(Head(attributes)) THEN JoinKeys(Tail(attributes))
    ELSE Head(attributes) \o <<",">> \o JoinKeys(Tail(attributes))

\* A post-increment: the callback gets the counter's old value.
NewRequestId_PostIncrement(rid) == rid

\* The id Set_Request_ID(++request_id) gives the callback, in size_t arithmetic.
NewRequestId(rid) == (rid + 1) % CounterModulus

\* Attributes_Request: the result of the whole call as a record of the new
\* store, the new counter, the host callbacks called and the return value.
\* host holds the answers of the host's callbacks (see HostOutcomes).
Attributes_Request(cbs, rid, callback, attribute_request_key, attribute_response_key, host) ==
    IF NoKeysRequested(callback.attributes)
    THEN [cbs |-> cbs, rid |-> rid, calls |-> <<>>, ret |-> "false"]
    ELSE IF attribute_request_key = nullptr \/ attribute_response_key = nullptr
    THEN [cbs |-> cbs, rid |-> rid, calls |-> <<>>, ret |-> "false"]
    ELSE
      LET sub == Attributes_Request_Subscribe(cbs, callback, host.subscribe_ok) IN
      IF ~sub.ok \/ sub.registered = 0
      THEN [cbs |-> sub.cbs, rid |-> rid, calls |-> sub.calls, ret |-> "false"]
      ELSE IF ~host.id_ok
      THEN [cbs |-> sub.cbs, rid |-> rid,
            calls |-> Append(sub.calls, GetRequestIdCall(FALSE)), ret |-> "false"]
      ELSE
        LET new_id     == NewRequestId(rid)
            joined     == JoinKeys(callback.attributes)
            registered == Start_Timeout_Timer(
                              Set_Attribute_Key(
                                  Set_Request_ID(sub.cbs[sub.registered], new_id),
                                  attribute_response_key))
        IN  [cbs |-> [sub.cbs EXCEPT ![sub.registered] = registered],
             rid |-> (rid + 1) % CounterModulus,
             calls |-> sub.calls \o
                       <<GetRequestIdCall(TRUE),
                         PublishCall(new_id, attribute_request_key, joined, host.send_ok)>>,
             ret |-> Bool(host.send_ok)]

\* A search that takes the first callback whatever its request id.
FindRequest_Front(cbs, id) == IF cbs = <<>> THEN 0 ELSE 1

\* The iterator std::find_if returns: the index of the first callback with
\* the request id, 0 for end().
FindRequest(cbs, id) ==
    IF \E i \in 1..Len(cbs) : cbs[i].request_id = id
    THEN CHOOSE i \in 1..Len(cbs) :
             /\ cbs[i].request_id = id
             /\ \A j \in 1..(i - 1) : cbs[j].request_id # id
    ELSE 0

\* A callback argument that is never narrowed.
NarrowObject_Never(object, attribute_response_key) == object

\* The object handed to the callback: narrowed to the response key if the
\* response contains it.
NarrowObject(object, attribute_response_key) ==
    IF containsKey(object, attribute_response_key)
    THEN Member(object, attribute_response_key)
    ELSE object

\* A match step that looks the callback up by id but erases the front one.
ProcessMatch_RemovesFront(cbs, id, data) ==
    LET it == FindRequest(cbs, id) IN
    IF it = 0
    THEN [cbs |-> cbs, invoked |-> <<>>]
    ELSE IF cbs[it].attribute_key = nullptr
    THEN [cbs |-> remove(cbs, 1), invoked |-> <<>>]
    ELSE LET called == Call_Callback(Stop_Timeout_Timer(cbs[it]))
             object == NarrowObject(data, cbs[it].attribute_key)
         IN  [cbs |-> remove(cbs, 1),
              invoked |-> <<Invocation(called, "response", object, data)>>]

\* The first part of Process_Json_Response: find, call, remove.
ProcessMatch(cbs, id, data) ==
    LET it == FindRequest(cbs, id) IN
    IF it = 0
    THEN [cbs |-> cbs, invoked |-> <<>>]
    ELSE IF cbs[it].attribute_key = nullptr
    THEN [cbs |-> remove(cbs, it), invoked |-> <<>>]
    ELSE LET called == Call_Callback(Stop_Timeout_Timer(cbs[it]))
             object == NarrowObject(data, cbs[it].attribute_key)
         IN  [cbs |-> remove(cbs, it),
              invoked |-> <<Invocation(called, "response", object, data)>>]

\* A last part that unsubscribes whatever is pending.
UnsubscribeIfEmpty_Always(cbs) == Attributes_Request_Unsubscribe(cbs, TRUE)

\* A last part that never unsubscribes.
UnsubscribeIfEmpty_Never(cbs) == [cbs |-> cbs, calls |-> <<>>, ret |-> "void"]

\* The last part of Process_Json_Response: unsubscribe if nothing is pending.
\* The result of the unsubscribe call is discarded, so it is no input.
UnsubscribeIfEmpty(cbs) ==
    IF cbs = <<>>
    THEN Attributes_Request_Unsubscribe(cbs, TRUE)
    ELSE [cbs |-> cbs, calls |-> <<>>, ret |-> "void"]

\* ---------------------------------------------------------------- actions
\* The record of an operation: its name and the arguments it was called with
\* (the request id in the topic of a response, the keys of a request, the
\* time passed since the last loop) and how many callbacks were pending when
\* it was called.
Operation(op, id, attributes, delta, pending) ==
    [op |-> op, id |-> id, attributes |-> attributes, delta |-> delta, pending |-> pending]

\* Whether the response topic is subscribed after the calls of the log: the
\* last subscribe call that succeeded is not followed by an unsubscribe call.
RECURSIVE SubscribedAfter(_, _)
SubscribedAfter(before, log) ==
    IF log = <<>> THEN before
    ELSE SubscribedAfter(
             IF Head(log).call = "subscribe" /\ Head(log).ok THEN TRUE
             ELSE IF Head(log).call = "unsubscribe" THEN FALSE
             ELSE before,
             Tail(log))

Init ==
    /\ m_attribute_request_callbacks = <<>>
    /\ request_id = 0
    /\ calls = <<>>
    /\ invoked = <<>>
    /\ ret = "none"
    /\ last = Operation("none", 0, <<>>, 0, 0)
    /\ subscribed = FALSE
    /\ keys = <<>>
    /\ pc = "idle"
    /\ att = 0
    /\ size = 0
    /\ request = <<>>
    /\ written = {}

Request(op, attribute_request_key, attribute_response_key) ==
    \E arg \in CallbackArguments, host \in HostOutcomes :
        LET r == Attributes_Request(m_attribute_request_callbacks, request_id,
                                    NewCallback(arg.attributes, arg.handler),
                                    attribute_request_key, attribute_response_key, host)
        IN  /\ m_attribute_request_callbacks' = r.cbs
            /\ request_id' = r.rid
            /\ calls' = r.calls
            /\ invoked' = <<>>
            /\ ret' = r.ret
            /\ last' = Operation(op, 0, arg.attributes, 0, Len(m_attribute_request_callbacks))
            /\ subscribed' = SubscribedAfter(subscribed, r.calls)
            /\ UNCHANGED locals

Client_Attributes_Request ==
    Request("Client_Attributes_Request", CLIENT_REQUEST_KEYS, CLIENT_RESPONSE_KEY)

Shared_Attributes_Request ==
    Request("Shared_Attributes_Request", SHARED_REQUEST_KEY, SHARED_RESPONSE_KEY)

Process_Json_Response ==
    \E suffix \in TopicSuffixes, data \in Documents :
        LET m == ProcessMatch(m_attribute_request_callbacks, parseRequestId(suffix), data)
            u == UnsubscribeIfEmpty(m.cbs)
        IN  /\ m_attribute_request_callbacks' = u.cbs
            /\ calls' = u.calls
            /\ invoked' = m.invoked
            /\ ret' = "void"
            /\ last' = Operation("Process_Json_Response", parseRequestId(suffix), <<>>, 0,
                                 Len(m_attribute_request_callbacks))
            /\ subscribed' = SubscribedAfter(subscribed, u.calls)
            /\ UNCHANGED <<request_id, locals>>

\* An unsubscribe that tells the discarded callbacks of a timeout.
UnsubscribeAll_NotifiesTimeout(op) ==
    \E unsubscribe_ok \in BOOLEAN :
        LET u == Attributes_Request_Unsubscribe(m_attribute_request_callbacks, unsubscribe_ok)
        IN  /\ m_attribute_request_callbacks' = u.cbs
            /\ calls' = u.calls
            /\ invoked' = [i \in 1..Len(m_attribute_request_callbacks) |->
                              Invocation(Call_Callback(m_attribute_request_callbacks[i]),
                                         "timeout", {}, {})]
            /\ ret' = u.ret
            /\ last' = Operation(op, 0, <<>>, 0, Len(m_attribute_request_callbacks))
            /\ subscribed' = SubscribedAfter(subscribed, u.calls)
            /\ UNCHANGED <<request_id, locals>>

UnsubscribeAll(op) ==
    \E unsubscribe_ok \in BOOLEAN :
        LET u == Attributes_Request_Unsubscribe(m_attribute_request_callbacks, unsubscribe_ok)
        IN  /\ m_attribute_request_callbacks' = u.cbs
            /\ calls' = u.calls
            /\ invoked' = <<>>
            /\ ret' = u.ret
            /\ last' = Operation(op, 0, <<>>, 0, Len(m_attribute_request_callbacks))
            /\ subscribed' = SubscribedAfter(subscribed, u.calls)
            /\ UNCHANGED <<request_id, locals>>

Unsubscribe == UnsubscribeAll("Unsubscribe")

\* A resubscribe that keeps the pending callbacks and subscribes the topic again.
Resubscribe_Topic_Resubscribes ==
    \E subscribe_ok \in BOOLEAN :
        /\ calls' = <<UnsubscribeCall(TRUE), SubscribeCall(subscribe_ok)>>
        /\ invoked' = <<>>
        /\ ret' = Bool(subscribe_ok)
        /\ last' = Operation("Resubscribe_Topic", 0, <<>>, 0, Len(m_attribute_request_callbacks))
        /\ subscribed' = SubscribedAfter(subscribed, calls')
        /\ UNCHANGED <<m_attribute_request_callbacks, request_id, locals>>

\* Resubscribe_Topic returns Unsubscribe().
Resubscribe_Topic == UnsubscribeAll("Resubscribe_Topic")

\* loop: update the timeout timer of every pending callback.
TimedOut(cbs, delta) ==
    LET expired == SelectSeq([i \in 1..Len(cbs) |-> i],
                             LAMBDA i : TimerExpires(cbs[i], delta))
    IN  [k \in 1..Len(expired) |->
            Invocation(Update_Timeout_Timer(cbs[expired[k]], delta), "timeout", {}, {})]

loop ==
    \E delta \in 1..MaxDelta :
        /\ m_attribute_request_callbacks' =
               [i \in 1..Len(m_attribute_request_callbacks) |->
                   Update_Timeout_Timer(m_attribute_request_callbacks[i], delta)]
        /\ invoked' = TimedOut(m_attribute_request_callbacks, delta)
        /\ calls' = <<>>
        /\ ret' = "void"
        /\ last' = Operation("loop", 0, <<>>, delta, Len(m_attribute_request_callbacks))
        /\ UNCHANGED <<request_id, subscribed, locals>>

Next ==
    \/ Client_Attributes_Request
    \/ Shared_Attributes_Request
    \/ Process_Json_Response
    \/ Unsubscribe
    \/ Resubscribe_Topic
    \/ loop

Spec == Init /\ [][Next]_vars

\* ------------------------------------------- building the key string
\* The keys a list can hold: null, empty, one character, two characters.
KeyChoices == {NullKey, <<>>, <<"a">>, <<"b", "c">>}

RECURSIVE ListsUpTo(_, _)
ListsUpTo(S, n) ==
    IF n = 0 THEN {<<>>}
    ELSE LET shorter == ListsUpTo(S, n - 1)
         IN  shorter \cup {Append(l, x) : l \in shorter, x \in S}

\* The string terminator.
NUL == "0"

\* strlen of the contents of a char array: the characters before the first
\* terminator.
ArrayStrlen(dest) ==
    IF \E k \in 1..Len(dest) : dest[k] = NUL
    THEN (CHOOSE k \in 1..Len(dest) :
              dest[k] = NUL /\ \A j \in 1..(k - 1) : dest[j] # NUL) - 1
    ELSE Len(dest)

\* strncat(dest, src, n): at most n characters of src and then a terminator
\* are written from the end of the string in dest on. The result is the
\* array after the call and the indices (from 0) that were written, those
\* past the end of the array among them.
strncat(dest, src, n) ==
    LET end   == ArrayStrlen(dest)
        count == IF n < Len(src) THEN n ELSE Len(src)
        bytes == SubSeq(src, 1, count) \o <<NUL>>
    IN  [ array   |-> [k \in 1..Len(dest) |->
                          IF k > end /\ k <= end + count + 1
                          THEN bytes[k - end] ELSE dest[k]],
          written |-> end..(end + count) ]

\* The state when Attributes_Request reaches line 215 with a list of keys
\* that passed the check for an empty list.
InitJoin ==
    /\ m_attribute_request_callbacks = <<>>
    /\ request_id = 0
    /\ calls = <<>>
    /\ invoked = <<>>
    /\ ret = "none"
    /\ last = Operation("none", 0, <<>>, 0, 0)
    /\ subscribed = FALSE
    /\ keys \in ListsUpTo(KeyChoices, MaxKeys) \ {<<>>}
    /\ pc = "measure"
    /\ att = 1
    /\ size = 0
    /\ request = <<>>
    /\ written = {}

\* One turn of the first loop: add the length of the key and of a comma.
MeasureKey ==
    /\ pc = "measure"
    /\ att <= Len(keys)
    /\ size' = IF stringIsNullorEmpty(keys[att]) THEN size
               ELSE size + strlen(keys[att]) + strlen(<<",">>)
    /\ att' = att + 1
    /\ UNCHANGED <<engine, keys, pc, request, written>>

\* char request[size] = {}: the array of size zeroed characters.
AllocateRequest ==
    /\ pc = "measure"
    /\ att > Len(keys)
    /\ request' = [k \in 1..size |-> NUL]
    /\ pc' = "concatenate"
    /\ att' = 1
    /\ UNCHANGED <<engine, keys, size, written>>

\* One turn of the second loop: append the key and a comma.
ConcatenateKey ==
    /\ pc = "concatenate"
    /\ att <= Len(keys)
    /\ IF stringIsNullorEmpty(keys[att])
       THEN UNCHANGED <<size, request, written>>
       ELSE LET key   == strncat(request, keys[att], size)
                comma == strncat(key.array, <<",">>, size - strlen(keys[att]))
            IN  /\ request' = comma.array
                /\ written' = written \cup key.written \cup comma.written
                /\ size' = size - strlen(keys[att]) - strlen(<<",">>)
    /\ att' = att + 1
    /\ UNCHANGED <<engine, keys, pc>>

\* The end of the second loop: the string goes into the request document.
FinishRequest ==
    /\ pc = "concatenate"
    /\ att > Len(keys)
    /\ pc' = "done"
    /\ UNCHANGED <<engine, keys, att, size, request, written>>

NextJoin ==
    \/ MeasureKey
    \/ AllocateRequest
    \/ ConcatenateKey
    \/ FinishRequest

SpecJoin == InitJoin /\ [][NextJoin]_vars

TypeOK ==
    /\ request_id \in 0..(CounterModulus - 1)
    /\ ret \in {"none", "void", "true", "false"}
    /\ \A i \in 1..Len(m_attribute_request_callbacks) :
           m_attribute_request_callbacks[i].request_id \in 0..(CounterModulus - 1)

\* ------------------------------------------------------------ properties
IsRequest(l) == l.op \in {"Client_Attributes_Request", "Shared_Attributes_Request"}

IsResponse(l) == l.op = "Process_Json_Response"

\* How many calls of the host callback the log holds.
CallCount(log, name) == Cardinality({k \in 1..Len(log) : log[k].call = name})

\* Whether a callback with the request id is pending.
Pending(cbs, id) == \E i \in 1..Len(cbs) : cbs[i].request_id = id

\* Whether after is before without its i-th element.
RemovedAt(before, after, i) ==
    /\ Len(after) = Len(before) - 1
    /\ \A j \in 1..Len(after) : after[j] = IF j < i THEN before[j] ELSE before[j + 1]

\* C1: no two pending callbacks have the same request id.
C1_UniqueRequestIds ==
    \A i, j \in 1..Len(m_attribute_request_callbacks) :
        i # j => m_attribute_request_callbacks[i].request_id
                     # m_attribute_request_callbacks[j].request_id

\* C2: a response whose id matches a pending callback with a non-null
\* response key invokes that callback exactly once, the store shrinks by
\* exactly one and the id is pending no more.
C2_MatchedResponseCompletes ==
    [][ ( /\ IsResponse(last')
          /\ \E i \in 1..Len(m_attribute_request_callbacks) :
                 /\ m_attribute_request_callbacks[i].request_id = last'.id
                 /\ m_attribute_request_callbacks[i].attribute_key # nullptr )
        => /\ Len(invoked') = 1
           /\ invoked'[1].request_id = last'.id
           /\ Len(m_attribute_request_callbacks') = Len(m_attribute_request_callbacks) - 1
           /\ ~Pending(m_attribute_request_callbacks', last'.id) ]_vars

\* C3: when loop() takes the timer of a pending callback over the timeout,
\* the callback is invoked with the timeout and is removed from the store.
C3_TimeoutRemoves ==
    [][ last'.op = "loop"
        => /\ \A i \in 1..Len(m_attribute_request_callbacks) :
                  TimerExpires(m_attribute_request_callbacks[i], last'.delta)
                  => \E k \in 1..Len(invoked') :
                         /\ invoked'[k].kind = "timeout"
                         /\ invoked'[k].request_id
                                = m_attribute_request_callbacks[i].request_id
           /\ \A j \in 1..Len(m_attribute_request_callbacks') :
                  m_attribute_request_callbacks'[j].elapsed <= TimeoutThreshold ]_vars

\* C4: no user callback of a stored request is ever invoked a second time.
C4_AtMostOnce == \A k \in 1..Len(invoked) : invoked[k].nth <= 1

\* C5: a step that empties the store makes exactly one unsubscribe call; a
\* step that makes the empty store non-empty is a request and makes exactly
\* one subscribe call.
C5_SubscribeFirstUnsubscribeLast ==
    [][ /\ (m_attribute_request_callbacks # <<>> /\ m_attribute_request_callbacks' = <<>>)
           => CallCount(calls', "unsubscribe") = 1
        /\ (m_attribute_request_callbacks = <<>> /\ m_attribute_request_callbacks' # <<>>)
           => (IsRequest(last') /\ CallCount(calls', "subscribe") = 1) ]_vars

\* A response completed the last pending request and unsubscribed.
C5_Witness ==
    /\ IsResponse(last)
    /\ Len(invoked) = 1
    /\ m_attribute_request_callbacks = <<>>
    /\ CallCount(calls, "unsubscribe") = 1

\* C6: a response for a pending id removes exactly one callback, one with
\* that id, invokes no other callback, and leaves every other callback in
\* the store as it was.
C6_MatchedById ==
    [][ (IsResponse(last') /\ Pending(m_attribute_request_callbacks, last'.id))
        => \E i \in 1..Len(m_attribute_request_callbacks) :
               /\ m_attribute_request_callbacks[i].request_id = last'.id
               /\ RemovedAt(m_attribute_request_callbacks, m_attribute_request_callbacks', i)
               /\ \A k \in 1..Len(invoked') :
                      /\ invoked'[k].request_id = last'.id
                      /\ invoked'[k].handler = m_attribute_request_callbacks[i].handler ]_vars

\* The response for the younger of two requests came first: its callback
\* ran and the older request is still pending.
C6_Witness ==
    /\ IsResponse(last)
    /\ Len(invoked) = 1
    /\ invoked[1].request_id = last.id
    /\ Len(m_attribute_request_callbacks) = 1
    /\ m_attribute_request_callbacks[1].request_id = 1
    /\ last.id = 2

\* C7: a response whose id matches no pending callback leaves the store as
\* it is and invokes no callback.
C7_UnmatchedResponseNoop ==
    [][ (IsResponse(last') /\ ~Pending(m_attribute_request_callbacks, last'.id))
        => (m_attribute_request_callbacks' = m_attribute_request_callbacks /\ invoked' = <<>>) ]_vars

\* A response for an id that is not pending arrived while the store was full.
C7_Witness ==
    /\ IsResponse(last)
    /\ ~Pending(m_attribute_request_callbacks, last.id)
    /\ Len(m_attribute_request_callbacks) = MaxSubscriptions
    /\ invoked = <<>>

\* C8: the store never holds more than MaxSubscriptions callbacks, and a
\* request made at capacity returns false, leaves the store and the request
\* id counter as they are and publishes nothing.
C8_CapacityRespected ==
    [][ /\ Len(m_attribute_request_callbacks') <= MaxSubscriptions
        /\ (IsRequest(last') /\ Len(m_attribute_request_callbacks) >= MaxSubscriptions)
           => /\ ret' = "false"
              /\ m_attribute_request_callbacks' = m_attribute_request_callbacks
              /\ CallCount(calls', "publish") = 0
              /\ request_id' = request_id ]_vars

\* A request with keys was refused because the store was full.
C8_Witness ==
    /\ IsRequest(last)
    /\ last.attributes # <<>>
    /\ Len(m_attribute_request_callbacks) = MaxSubscriptions
    /\ ret = "false"
    /\ calls = <<>>

\* C9: a request whose subscribe call fails returns false, stores nothing,
\* publishes nothing and leaves the request id counter as it is.
C9_SubscribeFailure ==
    [][ ( /\ IsRequest(last')
          /\ \E k \in 1..Len(calls') : calls'[k].call = "subscribe" /\ ~calls'[k].ok )
        => /\ ret' = "false"
           /\ m_attribute_request_callbacks' = m_attribute_request_callbacks
           /\ CallCount(calls', "publish") = 0
           /\ request_id' = request_id ]_vars

\* A request failed in its subscribe call.
C9_Witness ==
    /\ IsRequest(last)
    /\ calls = <<SubscribeCall(FALSE)>>
    /\ ret = "false"

\* C10: a request with an empty key list returns false, leaves the store and
\* the request id counter as they are and calls neither subscribe nor publish.
C10_EmptyKeyList ==
    [][ (IsRequest(last') /\ last'.attributes = <<>>)
        => /\ ret' = "false"
           /\ m_attribute_request_callbacks' = m_attribute_request_callbacks
           /\ calls' = <<>>
           /\ request_id' = request_id ]_vars

\* A request with an empty key list was refused while the store had room.
C10_Witness ==
    /\ IsRequest(last)
    /\ last.attributes = <<>>
    /\ Len(m_attribute_request_callbacks) < MaxSubscriptions
    /\ ret = "false"
    /\ calls = <<>>

\* Whether the key list holds a null key.
HasNullKey(attributes) == \E i \in 1..Len(attributes) : attributes[i] = NullKey

\* Whether the log holds the call.
Called(log, call) == \E k \in 1..Len(log) : log[k] = call

\* C11 as claimed: a request whose key list holds a null key returns false,
\* stores nothing, calls neither subscribe nor publish and leaves the request
\* id counter as it is.
C11_NullKeyRejected ==
    [][ (IsRequest(last') /\ HasNullKey(last'.attributes))
        => /\ ret' = "false"
           /\ m_attribute_request_callbacks' = m_attribute_request_callbacks
           /\ calls' = <<>>
           /\ request_id' = request_id ]_vars

\* C11 as amended: a null key in the list does not make the request fail, it
\* is skipped. With room in the store the subscribe call is made; when it
\* succeeds the callback is stored; when the host hands out the request id
\* counter the request is published once, without the null key in the
\* payload, and the request returns what the publish returned.
C11_NullKeySkipped ==
    [][ (IsRequest(last') /\ HasNullKey(last'.attributes))
        => /\ Len(m_attribute_request_callbacks) < MaxSubscriptions
              => CallCount(calls', "subscribe") = 1
           /\ Called(calls', SubscribeCall(TRUE))
              => Len(m_attribute_request_callbacks') = Len(m_attribute_request_callbacks) + 1
           /\ Called(calls', GetRequestIdCall(TRUE))
              => /\ CallCount(calls', "publish") = 1
                 /\ \A k \in 1..Len(calls') :
                        calls'[k].call = "publish"
                        => /\ \A c \in 1..Len(calls'[k].payload.value) :
                                  calls'[k].payload.value[c] # "nullptr"
                           /\ ret' = Bool(calls'[k].ok) ]_vars

\* A request with a null key among its keys was published and returned true.
C11_Witness ==
    /\ IsRequest(last)
    /\ HasNullKey(last.attributes)
    /\ CallCount(calls, "publish") = 1
    /\ ret = "true"

\* C12: every stored callback has a non-null response key.
C12_ResponseKeyNeverNull ==
    \A i \in 1..Len(m_attribute_request_callbacks) :
        m_attribute_request_callbacks[i].attribute_key # nullptr

\* C13: a callback invoked for a response gets the member of the response
\* document under its response key if the document has that member, and the
\* whole document otherwise; a client request gets {"a":1} for both
\* {"client":{"a":1}} and {"a":1}.
C13_NarrowedToResponseKey ==
    \A k \in 1..Len(invoked) :
        invoked[k].kind = "response"
        => LET wrapped == {p \in invoked[k].response :
                               Len(p) >= 2 /\ p[1] = invoked[k].key}
           IN  /\ wrapped # {} => invoked[k].data = {Tail(p) : p \in wrapped}
               /\ wrapped = {} => invoked[k].data = invoked[k].response
               /\ ( /\ invoked[k].key = "client"
                    /\ invoked[k].response \in {{<<"client", "a", "1">>}, {<<"a", "1">>}} )
                  => invoked[k].data = {<<"a", "1">>}

\* A client request got the member "client" of its response.
C13_Witness ==
    /\ IsResponse(last)
    /\ Len(invoked) = 1
    /\ invoked[1].key = "client"
    /\ invoked[1].response = {<<"client", "a", "1">>}
    /\ invoked[1].data = {<<"a", "1">>}

\* C14: Unsubscribe empties the store, makes exactly one unsubscribe call and
\* no other call and invokes no callback; a response that follows it matches
\* nothing: it invokes no callback and the store stays empty.
C14_UnsubscribeDiscardsAll ==
    [][ /\ last'.op = "Unsubscribe"
           => /\ m_attribute_request_callbacks' = <<>>
              /\ invoked' = <<>>
              /\ Len(calls') = 1
              /\ calls'[1].call = "unsubscribe"
        /\ (last.op = "Unsubscribe" /\ IsResponse(last'))
           => /\ m_attribute_request_callbacks' = <<>>
              /\ invoked' = <<>> ]_vars

\* Unsubscribe discarded a full store.
C14_Witness ==
    /\ last.op = "Unsubscribe"
    /\ last.pending = MaxSubscriptions
    /\ m_attribute_request_callbacks = <<>>
    /\ invoked = <<>>
    /\ CallCount(calls, "unsubscribe") = 1

\* The callback a request has just stored (the back of the Array).
Back(cbs) == cbs[Len(cbs)]

\* What C15 says of a request that takes a new id: the counter goes up by
\* one in size_t arithmetic, the stored callback and the publish topic carry
\* the counter's new value.
TakesNewId(before, after, cbs, log) ==
    /\ after = (before + 1) % CounterModulus
    /\ cbs # <<>>
    /\ Back(cbs).request_id = after
    /\ \A k \in 1..Len(log) : log[k].call = "publish" => log[k].id = after

\* C15 as claimed: every request whose subscribe call succeeds takes a new
\* id; every request that fails before leaves the counter as it is.
C15_IdAfterSubscribe ==
    [][ IsRequest(last')
        => IF Called(calls', SubscribeCall(TRUE))
           THEN TakesNewId(request_id, request_id', m_attribute_request_callbacks', calls')
           ELSE request_id' = request_id ]_vars

\* C15 as amended: every request whose subscribe call succeeds and to which
\* the host hands out the request id counter takes a new id and publishes
\* once; every other request leaves the counter as it is and publishes
\* nothing.
C15_IdAfterCounterAccess ==
    [][ IsRequest(last')
        => IF Called(calls', SubscribeCall(TRUE)) /\ Called(calls', GetRequestIdCall(TRUE))
           THEN /\ TakesNewId(request_id, request_id', m_attribute_request_callbacks', calls')
                /\ CallCount(calls', "publish") = 1
           ELSE /\ request_id' = request_id
                /\ CallCount(calls', "publish") = 0 ]_vars

\* The second of two pending requests took the id after the first one's.
C15_Witness ==
    /\ IsRequest(last)
    /\ Len(m_attribute_request_callbacks) = 2
    /\ m_attribute_request_callbacks[1].request_id = 1
    /\ m_attribute_request_callbacks[2].request_id = 2
    /\ request_id = 2
    /\ \E k \in 1..Len(calls) : calls[k].call = "publish" /\ calls[k].id = 2

\* C16 as claimed: a request made while a callback is pending makes no
\* subscribe call.
C16_SubscribeOnlyIfNonePending ==
    [][ (IsRequest(last') /\ m_attribute_request_callbacks # <<>>)
        => CallCount(calls', "subscribe") = 0 ]_vars

\* C16 as amended: every request with keys that finds room in the store
\* makes exactly one subscribe call, on the one shared response topic,
\* whether callbacks are pending or not; every other request makes none.
C16_SubscribeEveryRequest ==
    [][ IsRequest(last')
        => IF last'.attributes # <<>> /\ Len(m_attribute_request_callbacks) < MaxSubscriptions
           THEN /\ CallCount(calls', "subscribe") = 1
                /\ \A k \in 1..Len(calls') :
                       calls'[k].call = "subscribe"
                       => calls'[k].topic = "v1/devices/me/attributes/response/+"
           ELSE CallCount(calls', "subscribe") = 0 ]_vars

\* A request made while a callback was pending subscribed again.
C16_Witness ==
    /\ IsRequest(last)
    /\ last.pending >= 1
    /\ Len(m_attribute_request_callbacks) = last.pending + 1
    /\ CallCount(calls, "subscribe") = 1

\* C17 as claimed: a response whose id matches no pending callback makes no
\* call of the host at all.
C17_UnmatchedNoCalls ==
    [][ (IsResponse(last') /\ ~Pending(m_attribute_request_callbacks, last'.id))
        => calls' = <<>> ]_vars

\* C17 as amended: a response whose id matches no pending callback never
\* subscribes or publishes; it makes no call at all while callbacks are
\* pending, and exactly one unsubscribe call when the store is empty.
C17_UnmatchedUnsubscribesWhenEmpty ==
    [][ (IsResponse(last') /\ ~Pending(m_attribute_request_callbacks, last'.id))
        => /\ CallCount(calls', "subscribe") = 0
           /\ CallCount(calls', "publish") = 0
           /\ m_attribute_request_callbacks # <<>> => calls' = <<>>
           /\ m_attribute_request_callbacks = <<>> => calls' = <<UnsubscribeCall(TRUE)>> ]_vars

\* A response arrived while nothing was pending and the topic was unsubscribed.
C17_Witness ==
    /\ IsResponse(last)
    /\ last.pending = 0
    /\ m_attribute_request_callbacks = <<>>
    /\ invoked = <<>>
    /\ CallCount(calls, "unsubscribe") = 1

\* C19: while a callback is pending the response topic is subscribed, and an
\* operation that made an unsubscribe call has left the store empty.
C19_SubscribedWhilePending ==
    /\ m_attribute_request_callbacks # <<>> => subscribed
    /\ CallCount(calls, "unsubscribe") > 0 => m_attribute_request_callbacks = <<>>

\* A response completed one of two requests; the other one is still pending
\* and the topic still subscribed.
C19_Witness ==
    /\ IsResponse(last)
    /\ last.pending = 2
    /\ Len(invoked) = 1
    /\ Len(m_attribute_request_callbacks) = 1
    /\ subscribed
    /\ calls = <<>>

\* C20: Resubscribe_Topic empties the store, invokes no callback, makes one
\* unsubscribe call and no other call, returns what the unsubscribe returned
\* and leaves the request id counter alone; a response that follows it
\* matches nothing.
C20_ResubscribeDiscardsAll ==
    [][ /\ last'.op = "Resubscribe_Topic"
           => /\ m_attribute_request_callbacks' = <<>>
              /\ invoked' = <<>>
              /\ Len(calls') = 1
              /\ calls'[1].call = "unsubscribe"
              /\ ret' = Bool(calls'[1].ok)
              /\ request_id' = request_id
              /\ ~subscribed'
        /\ (last.op = "Resubscribe_Topic" /\ IsResponse(last'))
           => /\ m_attribute_request_callbacks' = <<>>
              /\ invoked' = <<>> ]_vars

\* Resubscribe_Topic discarded pending requests and did not subscribe again.
C20_Witness ==
    /\ last.op = "Resubscribe_Topic"
    /\ last.pending >= 1
    /\ m_attribute_request_callbacks = <<>>
    /\ invoked = <<>>
    /\ CallCount(calls, "unsubscribe") = 1
    /\ CallCount(calls, "subscribe") = 0
    /\ ~subscribed

\* The characters the array holds when the string is built are the keys as
\* JoinKeys joins them, and nothing of a key is cut off.
JoinedAsModelled == pc = "done" => request = JoinKeys(keys)

\* C18: every index the appends write to, the terminators included, is
\* below the size of the array.
C18_WritesWithinBuffer == \A w \in written : w < Len(request)

====
